---- MODULE Spec2Model ----
(***************************************************************************)
(* Model of src/app.py: a REST API over one table (PATIENTS) with a static *)
(* token gate, schema validation of the inputs, pagination of the list     *)
(* and a destructive "recreate" operation that reseeds the table.          *)
(*                                                                         *)
(* One action per route.  Each action runs the route's whole decorator     *)
(* stack in the order Python applies it: the decorator written first       *)
(* (nearest to @app.get/@app.post) is the outermost wrapper and runs       *)
(* first, the one written last (nearest to the function) runs last.        *)
(*                                                                         *)
(* Modelled columns: eid, fname, lname, identity, cellnum.  The remaining  *)
(* columns are required fields without any constraint, like lname.         *)
(* Strings are TLA+ strings; a raw query argument is a record that says    *)
(* whether it is present and what text it carries.                         *)
(***************************************************************************)
EXTENDS Integers, Sequences, FiniteSets, TLC

(* ------------------------------ bounds ------------------------------- *)

\* create is not offered once the table holds this many rows
MaxRows == 3
\* page arguments range over 0 .. MaxPageArg
MaxPageArg == 3

(* ------------------------- program constants ------------------------- *)

\* EventQuerySchema.page: load_default
DEFAULT_PAGE == 1
\* EventQuerySchema.per_page: load_default
DEFAULT_PER_PAGE == 20
\* EventQuerySchema.per_page: Range(max=30)
MAX_PER_PAGE == 30
\* EventInSchema.identity: Length(13), the first positional argument is min
IDENTITY_MIN_LEN == 13
\* EventInSchema.cellnum: Length(10), the first positional argument is min
CELLNUM_MIN_LEN == 10
\* EventModel.identity: db.String(13)
IDENTITY_COL_LEN == 13
\* EventModel.cellnum: db.String(10)
CELLNUM_COL_LEN == 10
\* EventModel.fname / lname: db.String(32)
NAME_COL_LEN == 32

\* os.getenv('API_TOKEN'): the configured secret (a set, non-empty value)
API_TOKEN == "s3cret"

\* tokens = ast.literal_eval("{'<API_TOKEN>':'appuser'}")
tokens == [t \in {API_TOKEN} |-> "appuser"]

\* Python's None as returned by verify_token
None == "<None>"

\* verify_token(token)
verify_token(token) == IF token \in DOMAIN tokens THEN tokens[token] ELSE None

\* HTTPTokenAuth.login_required as used by @app.auth_required(auth): the
\* request passes iff the callback returns a user
Authenticated(token) == verify_token(token) # None

(* --------------------------- sample records -------------------------- *)

\* sample_patients, the modelled columns
sample_patients ==
  << [fname |-> "Patrick", lname |-> "Dlamini",
      identity |-> "0105232541085", cellnum |-> "0609805147"],
     [fname |-> "Patience", lname |-> "Dlamini",
      identity |-> "0105237771085", cellnum |-> "0506587417"] >>

(* ------------------------------ schemas ------------------------------ *)

\* EventInSchema: the declared (all required) fields
EventInFields == {"fname", "lname", "identity", "cellnum"}

\* EventOutSchema: the declared fields
EventOutFields == {"eid", "fname", "lname", "identity", "cellnum"}

\* EventsOutSchema: the declared fields
EventsOutFields == {"events", "pagination"}

\* Schema.dump of a dict or an object: only declared fields that the value
\* carries are serialized, every other key is dropped
Dump(fields, obj) == [k \in (fields \cap DOMAIN obj) |-> obj[k]]

\* Schema.dump(None): no field can be read
EmptyBody == [k \in {} |-> ""]

\* EventInSchema.load of a JSON body: every required field present, the
\* Length validators hold, and no unknown field (marshmallow raises on
\* unknown fields of a JSON body)
EventInValid(data) ==
  /\ EventInFields \subseteq DOMAIN data
  /\ DOMAIN data \subseteq EventInFields
  /\ Len(data.identity) >= IDENTITY_MIN_LEN
  /\ Len(data.cellnum) >= CELLNUM_MIN_LEN

\* a raw query argument
AbsentArg == [kind |-> "absent", text |-> "", val |-> 0]
IntArg(n) == [kind |-> "int", text |-> "", val |-> n]
TextArg(s) == [kind |-> "text", text |-> s, val |-> 0]

\* Integer field of a query schema: text that is no integer literal fails
IntegerValid(arg) == arg.kind # "text"

\* Integer(load_default=d).deserialize
IntegerLoad(arg, d) == IF arg.kind = "absent" THEN d ELSE arg.val

\* a query schema whose per_page has no Range validator
EventQueryValid_NoRange(page, per_page) ==
  IntegerValid(page) /\ IntegerValid(per_page)

\* EventQuerySchema.load: page = Integer(load_default=1),
\* per_page = Integer(load_default=20, validate=Range(max=30))
EventQueryValid(page, per_page) ==
  /\ IntegerValid(page)
  /\ IntegerValid(per_page)
  /\ IntegerLoad(per_page, DEFAULT_PER_PAGE) <= MAX_PER_PAGE

\* the validated query handed to get_events
EventQueryLoad(page, per_page) ==
  [page |-> IntegerLoad(page, DEFAULT_PAGE),
   per_page |-> IntegerLoad(per_page, DEFAULT_PER_PAGE)]

\* marshmallow Boolean field: the texts it reads as True and as False
Truthy == {"t", "T", "true", "True", "TRUE", "on", "On", "ON",
           "y", "Y", "yes", "Yes", "YES", "1"}
Falsy == {"f", "F", "false", "False", "FALSE", "off", "Off", "OFF",
          "n", "N", "no", "No", "NO", "0"}

\* {'confirmation': Boolean(load_default=False)}: validation
ConfirmationValid(arg) ==
  arg.kind = "absent" \/ (arg.kind = "text" /\ arg.text \in Truthy \cup Falsy)

\* {'confirmation': Boolean(load_default=False)}: the loaded value
ConfirmationLoad(arg) == arg.kind = "text" /\ arg.text \in Truthy

(* ------------------------------ storage ------------------------------ *)

VARIABLES
  tableExists,  \* whether table PATIENTS exists in the database
  rows,         \* the rows of PATIENTS, in storage order
  nextId,       \* the next value of the eid identity column
  req,          \* the request handled last
  resp,         \* its response: the outcome, the handler's return value
                \* and the serialized body
  returned      \* history: the identifiers create has returned so far

vars == <<tableExists, rows, nextId, req, resp, returned>>

db == <<tableExists, rows, nextId>>

\* the identifiers in the table
Eids(rws) == {rws[i].eid : i \in DOMAIN rws}

\* EventModel(**data) with the eid the identity column assigns
EventModel(id, data) ==
  [eid |-> id, fname |-> data.fname, lname |-> data.lname,
   identity |-> data.identity, cellnum |-> data.cellnum]

\* the column lengths of EventModel: a longer value fails the INSERT
FitsColumns(data) ==
  /\ Len(data.fname) <= NAME_COL_LEN
  /\ Len(data.lname) <= NAME_COL_LEN
  /\ Len(data.identity) <= IDENTITY_COL_LEN
  /\ Len(data.cellnum) <= CELLNUM_COL_LEN

\* EventModel.fname.like("%{}%".format(fname)): fname occurs in value
Like(value, fname) ==
  \E i \in 1..(Len(value) - Len(fname) + 1) :
     SubSeq(value, i, i + Len(fname) - 1) = fname

\* query.filter(...).first(): the first matching row in storage order, as a
\* sequence of at most one row
FirstMatch(rws, fname) ==
  LET hits == {i \in DOMAIN rws : Like(rws[i].fname, fname)}
  IN IF hits = {} THEN << >>
     ELSE <<rws[CHOOSE i \in hits : \A j \in hits : i <= j]>>

\* query.get(eid): the row with that primary key, at most one
GetRow(rws, eid) ==
  LET hits == {i \in DOMAIN rws : rws[i].eid = eid}
  IN IF hits = {} THEN << >> ELSE <<rws[CHOOSE i \in hits : TRUE]>>

\* db.drop_all(); db.create_all(); add every sample; commit: the rows of the
\* fresh table, the identity column restarting at 1
SeededRows ==
  [i \in DOMAIN sample_patients |-> EventModel(i, sample_patients[i])]

(* ----------------------------- pagination ---------------------------- *)

\* the smaller of two integers
Min(a, b) == IF a <= b THEN a ELSE b

\* a page count that rounds down
Ceil_Floor(total, per_page) == total \div per_page

\* ceil(total / per_page) for per_page >= 1
Ceil(total, per_page) == (total + per_page - 1) \div per_page

\* limit(per_page).offset((page - 1) * per_page).all() in storage order
PageItems(rws, page, per_page) ==
  SubSeq(rws, (page - 1) * per_page + 1, Min(page * per_page, Len(rws)))

\* a paginate that does not abort on an empty page
PaginateAborts_EmptyPageOk(rws, page, per_page, zeroAborts) ==
  page < 1 \/ per_page < 0 \/ (per_page = 0 /\ zeroAborts)

\* EventModel.query.paginate(page=, per_page=) with its default
\* error_out=True: whether the call aborts with 404.  A page below 1, a
\* negative per_page, and an empty page other than page 1 abort; per_page = 0
\* aborts or not with the release of the storage library (zeroAborts)
PaginateAborts(rws, page, per_page, zeroAborts) ==
  \/ page < 1
  \/ per_page < 0
  \/ (per_page = 0 /\ zeroAborts)
  \/ (PageItems(rws, page, per_page) = << >> /\ page # 1)

\* the Pagination object paginate returns: items, total, page, per_page and
\* the derived pages, has_next, has_prev
Paginate(rws, page, per_page) ==
  LET total == Len(rws)
      pages == IF per_page = 0 \/ total = 0 THEN 0 ELSE Ceil(total, per_page)
  IN [items |-> PageItems(rws, page, per_page),
      total |-> total, page |-> page, per_page |-> per_page,
      pages |-> pages,
      has_next |-> page < pages, has_prev |-> page > 1]

\* url_for(endpoint, page=, per_page=): the link to a page
PageUrl(page, per_page) == <<page, per_page>>

\* the empty link ''
NoUrl == << >>

\* apiflask.pagination_builder(pagination): the metadata dict
pagination_builder(p) ==
  [total |-> p.total, pages |-> p.pages, per_page |-> p.per_page,
   page |-> p.page,
   next |-> IF p.has_next THEN PageUrl(p.page + 1, p.per_page) ELSE NoUrl,
   prev |-> IF p.has_prev THEN PageUrl(p.page - 1, p.per_page) ELSE NoUrl,
   first |-> PageUrl(1, p.per_page),
   last |-> PageUrl(p.pages, p.per_page),
   current |-> PageUrl(p.page, p.per_page)]

\* the dict get_events returns: the page's items under the key 'patients'
\* and the metadata under 'pagination'
EventsResult(p) ==
  [k \in {"patients", "pagination"} |->
     IF k = "patients" THEN p.items ELSE pagination_builder(p)]

(* ------------------------ requests and responses --------------------- *)

\* the API_TOKEN header of a request: absent (""), the secret, another text
Tokens == {"", API_TOKEN, "wrong"}

\* /patients/eid/<int:eid>
EidArgs == 0..MaxRows

\* /patients/name/<string:fname>
NameArgs == {"Pat", "e", "Q"}

\* ?page=
PageArgs ==
  {AbsentArg, TextArg("abc")} \cup {IntArg(n) : n \in 0..MaxPageArg}

\* ?per_page=
PerPageArgs ==
  {AbsentArg, TextArg("abc")}
    \cup {IntArg(n) : n \in {-1, 0, 1, 2, 3, DEFAULT_PER_PAGE,
                              MAX_PER_PAGE, MAX_PER_PAGE + 1}}

\* ?confirmation=
ConfirmationArgs ==
  {AbsentArg, TextArg("true"), TextArg("1"), TextArg("false"), TextArg("maybe")}

\* a JSON body that passes EventInSchema
FullPayload(fname) ==
  [fname |-> fname, lname |-> "Dlamini",
   identity |-> "0105232541085", cellnum |-> "0609805147"]

\* JSON bodies of POST /patients: a valid one, one without lname, one with a
\* short identity, one that carries an eid of its own.  Every value fits its
\* column
Payloads ==
  { FullPayload("Zed"),
    [fname |-> "Zed", identity |-> "0105232541085", cellnum |-> "0609805147"],
    [FullPayload("Zed") EXCEPT !.identity = "123"],
    [k \in EventInFields \cup {"eid"} |->
       IF k = "eid" THEN "1" ELSE FullPayload("Zed")[k]] }

\* a request: the route and its inputs (the inputs a route does not read keep
\* these defaults)
NoRequest ==
  [op |-> "none", token |-> "", eid |-> 0, fname |-> "",
   page |-> AbsentArg, per_page |-> AbsentArg,
   data |-> EmptyBody, confirmation |-> AbsentArg]

\* the routes behind @app.auth_required(auth)
Protected ==
  {"get_event_eid", "get_event_name", "get_events", "create_event",
   "create_database"}

\* a response: outcome names the status (ok 200, created 201, bad_request
\* 400, unauthorized 401, not_found 404, validation_error 422,
\* server_error 500), rv is what the view function returned, body is the
\* serialized JSON
Response(outcome, rv, body) == [outcome |-> outcome, rv |-> rv, body |-> body]

\* an error response with its message
Error(outcome, message) ==
  Response(outcome, EmptyBody, [message |-> message])

Init ==
  /\ tableExists \in BOOLEAN
  /\ rows = << >>
  /\ nextId = 1
  /\ req = NoRequest
  /\ resp = Response("none", EmptyBody, EmptyBody)
  /\ returned = {}

(* ------------------------------- routes ------------------------------ *)

\* GET /patients/eid/<int:eid>: output, auth_required, then get_or_404
get_event_eid ==
  \E token \in Tokens, eid \in EidArgs :
    LET found == GetRow(rows, eid)
    IN /\ req' = [NoRequest EXCEPT !.op = "get_event_eid",
                                   !.token = token, !.eid = eid]
       /\ resp' =
            IF ~Authenticated(token) THEN Error("unauthorized", "Unauthorized")
            ELSE IF ~tableExists THEN Error("server_error", "Internal Server Error")
            ELSE IF found = << >> THEN Error("not_found", "Not Found")
            ELSE Response("ok", found[1], Dump(EventOutFields, found[1]))
       /\ UNCHANGED <<tableExists, rows, nextId, returned>>

\* GET /patients/name/<string:fname>: output, auth_required, then the first
\* row whose fname is LIKE %fname%, or None
get_event_name ==
  \E token \in Tokens, fname \in NameArgs :
    LET found == FirstMatch(rows, fname)
    IN /\ req' = [NoRequest EXCEPT !.op = "get_event_name",
                                   !.token = token, !.fname = fname]
       /\ resp' =
            IF ~Authenticated(token) THEN Error("unauthorized", "Unauthorized")
            ELSE IF ~tableExists THEN Error("server_error", "Internal Server Error")
            ELSE IF found = << >> THEN Response("ok", EmptyBody, EmptyBody)
            ELSE Response("ok", found[1], Dump(EventOutFields, found[1]))
       /\ UNCHANGED <<tableExists, rows, nextId, returned>>

\* GET /patients: input(EventQuerySchema, 'query') is the outermost wrapper,
\* then output(EventsOutSchema), then auth_required, then the view, which
\* paginates and returns the dict that EventsOutSchema serializes
get_events ==
  \E token \in Tokens, page \in PageArgs, per_page \in PerPageArgs :
   \E zeroAborts \in IF IntegerLoad(per_page, DEFAULT_PER_PAGE) = 0
                        THEN BOOLEAN ELSE {FALSE} :
    LET query == EventQueryLoad(page, per_page)
        rv == EventsResult(Paginate(rows, query.page, query.per_page))
    IN /\ req' = [NoRequest EXCEPT !.op = "get_events", !.token = token,
                                   !.page = page, !.per_page = per_page]
       /\ resp' =
            IF ~EventQueryValid(page, per_page)
              THEN Error("validation_error", "Validation error")
            ELSE IF ~Authenticated(token) THEN Error("unauthorized", "Unauthorized")
            ELSE IF ~tableExists THEN Error("server_error", "Internal Server Error")
            ELSE IF PaginateAborts(rows, query.page, query.per_page, zeroAborts)
              THEN Error("not_found", "Not Found")
            ELSE Response("ok", rv, Dump(EventsOutFields, rv))
       /\ UNCHANGED <<tableExists, rows, nextId, returned>>

\* a create that hands out the last row's eid again instead of a new value
NewEid_Reused == IF rows = << >> THEN 1 ELSE rows[Len(rows)].eid

\* the eid of a new row: the next value of the identity column
NewEid == nextId

\* an insert that writes over the last row instead of adding one
InsertRow_Overwrite(rws, event) ==
  IF rws = << >> THEN <<event>> ELSE [rws EXCEPT ![Len(rws)] = event]

\* db.session.add(event); db.session.commit(): one more row
InsertRow(rws, event) == Append(rws, event)

\* POST /patients: input(EventInSchema, 'json') is the outermost wrapper, then
\* output(EventOutSchema, 201), then auth_required, then the view, which adds
\* the row and commits; the INSERT fails when the table is missing or a value
\* is longer than its column
create_event ==
  \E token \in Tokens, data \in Payloads :
    LET valid == EventInValid(data)
        auth == Authenticated(token)
        inserts == valid /\ auth /\ tableExists /\ FitsColumns(data)
        event == EventModel(NewEid, data)
    IN /\ inserts => Len(rows) < MaxRows
       /\ req' = [NoRequest EXCEPT !.op = "create_event",
                                   !.token = token, !.data = data]
       /\ resp' =
            IF ~valid THEN Error("validation_error", "Validation error")
            ELSE IF ~auth THEN Error("unauthorized", "Unauthorized")
            ELSE IF ~inserts THEN Error("server_error", "Internal Server Error")
            ELSE Response("created", event, Dump(EventOutFields, event))
       /\ rows' = IF inserts THEN InsertRow(rows, event) ELSE rows
       /\ nextId' = IF inserts THEN nextId + 1 ELSE nextId
       /\ returned' = IF inserts THEN returned \cup {event.eid} ELSE returned
       /\ UNCHANGED tableExists

\* a confirmation test that takes any flag that is present as a confirmation
Confirmed_AnyFlag(confirmation) == confirmation.kind = "text"

\* whether create_database runs drop_all/create_all/seed:
\* query['confirmation'] is True
Confirmed(confirmation) == ConfirmationLoad(confirmation) = TRUE

\* a recreate that skips drop_all and seeds the table it finds
RecreatedRows_NoDrop ==
  rows \o [i \in DOMAIN sample_patients |->
             EventModel(nextId + i - 1, sample_patients[i])]

\* the rows after db.drop_all(); db.create_all(); add samples; commit
RecreatedRows == SeededRows

\* POST /database/recreate: input({'confirmation': Boolean}, 'query') is the
\* outermost wrapper, then auth_required, then the view: with confirmation
\* True it drops the table, creates it and inserts the samples, otherwise it
\* aborts with 400
create_database ==
  \E token \in Tokens, confirmation \in ConfirmationArgs :
    LET valid == ConfirmationValid(confirmation)
        auth == Authenticated(token)
        recreates == valid /\ auth /\ Confirmed(confirmation)
    IN /\ req' = [NoRequest EXCEPT !.op = "create_database", !.token = token,
                                   !.confirmation = confirmation]
       /\ resp' =
            IF ~valid THEN Error("validation_error", "Validation error")
            ELSE IF ~auth THEN Error("unauthorized", "Unauthorized")
            ELSE IF ~recreates THEN Error("bad_request", "confirmation is missing")
            ELSE Response("ok", [message |-> "database recreated"],
                          [message |-> "database recreated"])
       /\ tableExists' = (recreates \/ tableExists)
       /\ rows' = IF recreates THEN RecreatedRows ELSE rows
       /\ nextId' = IF recreates THEN Len(RecreatedRows) + 1 ELSE nextId
       /\ UNCHANGED returned

\* GET /: no authentication, a fixed greeting
print_default ==
  /\ req' = [NoRequest EXCEPT !.op = "print_default"]
  /\ resp' = Response("ok", [message |-> "This is the patients API server"],
                      [message |-> "This is the patients API server"])
  /\ UNCHANGED <<tableExists, rows, nextId, returned>>

Next ==
  \/ get_event_eid
  \/ get_event_name
  \/ get_events
  \/ create_event
  \/ create_database
  \/ print_default

Spec == Init /\ [][Next]_vars

(* ------------------------------ the claims --------------------------- *)

\* the last step was an authenticated request to the given route
AuthStep(op) == req.op = op /\ req.token = API_TOKEN

\* the text of the confirmation flag reads as true
FlagTrue(arg) == arg.kind = "text" /\ arg.text \in {"true", "1"}

\* the text of the confirmation flag reads as false
FlagFalse(arg) == arg.kind = "text" /\ arg.text = "false"

\* the two built-in sample records with the identifiers of a fresh table
TwoSamples ==
  << [eid |-> 1, fname |-> "Patrick", lname |-> "Dlamini",
      identity |-> "0105232541085", cellnum |-> "0609805147"],
     [eid |-> 2, fname |-> "Patience", lname |-> "Dlamini",
      identity |-> "0105237771085", cellnum |-> "0506587417"] >>

\* the page and the page size a list request asks for, absent ones defaulted
AskedPage == IF req.page.kind = "absent" THEN 1 ELSE req.page.val
AskedSize == IF req.per_page.kind = "absent" THEN 20 ELSE req.per_page.val

\* the list request's arguments are integers (or absent)
IntegerArgs == req.page.kind # "text" /\ req.per_page.kind # "text"

\* the number of pages of N rows at page size s >= 1: the least k with k*s >= N
PagesOf(N, s) == CHOOSE k \in 0..N : k * s >= N /\ (k = 0 \/ (k - 1) * s < N)

\* the last step was an authenticated list request on an existing table with
\* page >= 1 and page size in 1..30
ListInBounds ==
  /\ AuthStep("get_events")
  /\ tableExists
  /\ IntegerArgs
  /\ AskedPage >= 1
  /\ AskedSize \in 1..30

\* the storage paginate call was reached by the last list request: the
\* validator and the token check both let it through
PaginateReached ==
  req.op = "get_events" /\ resp.outcome \in {"ok", "not_found", "server_error"}

\* C1: a request to a protected route with a missing or wrong token ends
\* unauthorized and leaves the table as it was (as the claim states it)
C1_BadTokenUnauthorizedNoEffect ==
  [][ (req'.op \in Protected /\ req'.token # API_TOKEN)
        => (resp'.outcome = "unauthorized" /\ db' = db) ]_vars

\* C2 as stated: an authenticated recreate whose flag is absent or not true
\* ends in bad_request (400) and changes nothing
C2_NotTrueIsBadRequest ==
  [][ (req'.op = "create_database" /\ req'.token = API_TOKEN
         /\ ~FlagTrue(req'.confirmation))
        => (resp'.outcome = "bad_request" /\ db' = db) ]_vars

\* C2 amended: an authenticated recreate whose flag is absent or reads as
\* false ends in bad_request with 'confirmation is missing'; one whose flag is
\* no boolean text ends in a validation error; both leave the table and its
\* rows unchanged, and the table is only rebuilt when the flag reads as true
C2_UnconfirmedRecreateKeepsTable ==
  [][ (req'.op = "create_database" /\ req'.token = API_TOKEN)
        => LET flag == req'.confirmation
           IN /\ (flag.kind = "absent" \/ FlagFalse(flag))
                   => /\ resp'.outcome = "bad_request"
                      /\ resp'.body.message = "confirmation is missing"
                      /\ db' = db
              /\ (flag.kind = "text" /\ ~FlagTrue(flag) /\ ~FlagFalse(flag))
                   => (resp'.outcome = "validation_error" /\ db' = db)
              /\ (db' # db) => FlagTrue(flag) ]_vars

\* C2 witness: an authenticated recreate with confirmation=false was refused
\* on a table that holds a created row besides the samples
C2_Witness ==
  /\ AuthStep("create_database")
  /\ req.confirmation = TextArg("false")
  /\ resp.outcome = "bad_request"
  /\ Len(rows) > Len(TwoSamples)

\* C3: right after an authenticated recreate with confirmation=true the table
\* exists and holds exactly the two samples, with identifiers 1 and 2, and
\* the next identifier is 3, whatever the table held before
C3_RecreateLeavesExactlySamples ==
  (AuthStep("create_database") /\ FlagTrue(req.confirmation))
    => /\ resp.outcome = "ok"
       /\ tableExists
       /\ rows = TwoSamples
       /\ nextId = 3

\* C3 witness: a confirmed recreate completed after creates had added rows
\* with identifier 3
C3_Witness ==
  /\ AuthStep("create_database")
  /\ FlagTrue(req.confirmation)
  /\ resp.outcome = "ok"
  /\ 3 \in returned

\* C4 as stated: the identifier a successful create returns was never
\* returned by an earlier create
C4_CreatedIdNeverSeenBefore ==
  [][ (resp'.outcome = "created") => (resp'.body.eid \notin returned) ]_vars

\* C4 amended: a successful create returns an identifier that the payload did
\* not carry, that is not in the table and is greater than every identifier
\* in it, and adds exactly one row with that identifier and the payload's
\* values; identifiers in the table are unique after every step
C4_CreatedIdNewInTable ==
  [][ /\ Cardinality(Eids(rows')) = Len(rows')
      /\ (resp'.outcome = "created")
           => LET id == resp'.body.eid
              IN /\ "eid" \notin DOMAIN req'.data
                 /\ id \notin Eids(rows)
                 /\ \A e \in Eids(rows) : id > e
                 /\ Len(rows') = Len(rows) + 1
                 /\ SubSeq(rows', 1, Len(rows)) = rows
                 /\ rows'[Len(rows')].eid = id
                 /\ \A k \in DOMAIN req'.data :
                      rows'[Len(rows')][k] = req'.data[k] ]_vars

\* C4 witness: the last two rows come from two creates with the same payload
\* and differ in their identifier only
C4_Witness ==
  /\ resp.outcome = "created"
  /\ Len(rows) >= 2
  /\ {Len(rows) - 1, Len(rows)} \subseteq DOMAIN rows
  /\ {rows[Len(rows) - 1].eid, rows[Len(rows)].eid} \subseteq returned
  /\ rows[Len(rows) - 1].eid # rows[Len(rows)].eid
  /\ \A k \in EventInFields : rows[Len(rows) - 1][k] = rows[Len(rows)][k]

\* C5: on exactly the two seeded records an authenticated list request for
\* page 1 with page size 20 answers with both records in its record list and
\* with metadata that has no next page
C5_SeededListCarriesBothRecords ==
  (AuthStep("get_events") /\ tableExists /\ rows = TwoSamples
     /\ req.page = IntArg(1) /\ req.per_page = IntArg(20))
    => /\ resp.outcome = "ok"
       /\ "events" \in DOMAIN resp.body
       /\ resp.body.events = TwoSamples
       /\ resp.body.pagination.next = NoUrl

C7_OutOfBoundsIsValidationError ==
  (AuthStep("get_events") /\ tableExists /\ IntegerArgs
     /\ (AskedPage < 1 \/ AskedSize \notin 1..30))
    => (resp.outcome = "validation_error" /\ ~PaginateReached)

\* C7 amended: a list request whose page size is above 30, or whose page or
\* page size is no integer, is rejected as a validation error before the
\* token check and before paginate; every other list request passes the
\* validator, so paginate runs with per_page <= 30 but also with a page or a
\* page size below 1; an absent page or page size counts as 1 and 20
C7_OnlyUpperBoundIsValidated ==
  (req.op = "get_events")
    => /\ (~IntegerArgs \/ AskedSize > 30) = (resp.outcome = "validation_error")
       /\ PaginateReached => (IntegerArgs /\ AskedSize <= 30)
       /\ (req.token = API_TOKEN /\ IntegerArgs /\ AskedSize <= 30)
            => PaginateReached
       /\ (resp.outcome = "ok")
            => /\ resp.body.pagination.page = AskedPage
               /\ resp.body.pagination.per_page = AskedSize

\* C7 witness: a page size of 31 was rejected by the validator
C7_Witness ==
  /\ AuthStep("get_events")
  /\ req.per_page = IntArg(31)
  /\ resp.outcome = "validation_error"
  /\ rows # << >>

C9_RowsOnlyDestroyedByConfirmedRecreate ==
  [][ \/ (req'.op = "create_database" /\ req'.token = API_TOKEN
            /\ FlagTrue(req'.confirmation))
      \/ /\ tableExists' = tableExists
         /\ Len(rows') >= Len(rows)
         /\ SubSeq(rows', 1, Len(rows)) = rows
         /\ Len(rows') <= Len(rows) + 1
         /\ (Len(rows') = Len(rows) + 1) => req'.op = "create_event" ]_vars

\* C9 witness: a create added a row to a table that held the samples
C9_Witness ==
  /\ req.op = "create_event"
  /\ resp.outcome = "created"
  /\ Len(rows) = 3
  /\ SubSeq(rows, 1, 2) = TwoSamples

\* C10: a validation error is only ever returned to an authenticated caller
\* of a protected route (the token check comes before input validation)
C10_ValidationErrorOnlyWhenAuthenticated ==
  (req.op \in Protected /\ resp.outcome = "validation_error")
    => req.token = API_TOKEN

====
